---- MODULE Spec2Model ----
(***************************************************************************)
(* The keyword resolver of DesignBriefInterpreter                          *)
(* (rhino_mcp/design_brief_interpreter.py): _extract_keywords followed by  *)
(* _derive_parameters, run on one shared interpreter object.               *)
(*                                                                         *)
(* A str is a sequence of one-character strings.  Float literals of the    *)
(* source all have at most two decimals and are held in hundredths         *)
(* (0.85 is 85, 1.0 is 100); int, bool and str values are held as they     *)
(* are.  A dict is a function on its keys; a dict whose iteration order    *)
(* matters is a sequence of <<key, value>> pairs in insertion order.       *)
(***************************************************************************)
EXTENDS Integers, Sequences, FiniteSets, TLC

VARIABLES
    default_params,   \* self.default_params, the interpreter's dict object
    keyword_mappings, \* self.keyword_mappings
    patterns,         \* self.patterns
    pc,               \* per thread: where its call of the resolver stands
    brief,            \* per thread: the argument of the call
    keywords,         \* per thread: the dict _extract_keywords returned
    params_ref,       \* per thread: the object the local name params is bound to
    local_params,     \* per thread: the dict object made by .copy()
    todo,             \* per thread: the words the loops of _derive_parameters have left
    outcome,          \* per thread: what the call gave back to its caller
    seen,             \* an earlier call and what it gave back, once observed
    entry,            \* per thread: the method its caller called
    exception,        \* per thread: the exception in flight inside interpret_brief
    response,         \* per thread: the dict interpret_brief built to return
    gen               \* a call of the generators alone: its argument and results

interp == <<default_params, keyword_mappings, patterns>>
frame == <<pc, brief, keywords, params_ref, local_params, todo, outcome>>
api == <<entry, exception, response>>
vars == <<default_params, keyword_mappings, patterns, pc, brief, keywords,
          params_ref, local_params, todo, outcome, seen, entry, exception,
          response, gen>>

\* The callers that may be inside the resolver of the one interpreter; the
\* specifications below run the calls of MainThread, one after the other.
Threads == {"t1", "t2"}
MainThread == "t1"

(***************************************************************************)
(* Characters and str.lower()                                              *)
(***************************************************************************)
UpperCase == <<"A", "B", "C", "D", "E", "F", "G", "H", "I", "J", "K", "L", "M",
               "N", "O", "P", "Q", "R", "S", "T", "U", "V", "W", "X", "Y", "Z">>
LowerCase == <<"a", "b", "c", "d", "e", "f", "g", "h", "i", "j", "k", "l", "m",
               "n", "o", "p", "q", "r", "s", "t", "u", "v", "w", "x", "y", "z">>

LowerChar(c) ==
    IF \E i \in 1..Len(UpperCase) : UpperCase[i] = c
    THEN LowerCase[CHOOSE i \in 1..Len(UpperCase) : UpperCase[i] = c]
    ELSE c

\* A lower() that leaves the text as it is.
LowerForgotten(s) == s

\* brief.lower()
Lower(s) == [i \in 1..Len(s) |-> LowerChar(s[i])]

(***************************************************************************)
(* The recognized keywords, as the patterns spell them                     *)
(***************************************************************************)
kw_high_rise == <<"h", "i", "g", "h", "-", "r", "i", "s", "e">>
kw_mid_rise == <<"m", "i", "d", "-", "r", "i", "s", "e">>
kw_low_rise == <<"l", "o", "w", "-", "r", "i", "s", "e">>
kw_tower == <<"t", "o", "w", "e", "r">>
kw_building == <<"b", "u", "i", "l", "d", "i", "n", "g">>
kw_dynamic == <<"d", "y", "n", "a", "m", "i", "c">>
kw_kinetic == <<"k", "i", "n", "e", "t", "i", "c">>
kw_adaptive == <<"a", "d", "a", "p", "t", "i", "v", "e">>
kw_responsive == <<"r", "e", "s", "p", "o", "n", "s", "i", "v", "e">>
kw_static == <<"s", "t", "a", "t", "i", "c">>
kw_louvres == <<"l", "o", "u", "v", "r", "e", "s">>
kw_sunshade == <<"s", "u", "n", "s", "h", "a", "d", "e">>
kw_sun_angle == <<"s", "u", "n", " ", "a", "n", "g", "l", "e">>
kw_solar == <<"s", "o", "l", "a", "r">>
kw_daylight == <<"d", "a", "y", "l", "i", "g", "h", "t">>
kw_shadowing == <<"s", "h", "a", "d", "o", "w", "i", "n", "g">>
kw_climate == <<"c", "l", "i", "m", "a", "t", "e">>
kw_weather == <<"w", "e", "a", "t", "h", "e", "r">>
kw_temperature == <<"t", "e", "m", "p", "e", "r", "a", "t", "u", "r", "e">>
kw_views == <<"v", "i", "e", "w", "s">>
kw_framing_views == <<"f", "r", "a", "m", "i", "n", "g", " ", "v", "i", "e", "w", "s">>
kw_panorama == <<"p", "a", "n", "o", "r", "a", "m", "a">>
kw_outlook == <<"o", "u", "t", "l", "o", "o", "k">>
kw_vista == <<"v", "i", "s", "t", "a">>
kw_glass == <<"g", "l", "a", "s", "s">>
kw_metal == <<"m", "e", "t", "a", "l">>
kw_wood == <<"w", "o", "o", "d">>
kw_aluminum == <<"a", "l", "u", "m", "i", "n", "u", "m">>
kw_concrete == <<"c", "o", "n", "c", "r", "e", "t", "e">>
kw_transparent == <<"t", "r", "a", "n", "s", "p", "a", "r", "e", "n", "t">>
kw_opaque == <<"o", "p", "a", "q", "u", "e">>
kw_dense == <<"d", "e", "n", "s", "e">>
kw_sparse == <<"s", "p", "a", "r", "s", "e">>
kw_porous == <<"p", "o", "r", "o", "u", "s">>
kw_pattern == <<"p", "a", "t", "t", "e", "r", "n">>
kw_parametric == <<"p", "a", "r", "a", "m", "e", "t", "r", "i", "c">>
kw_lightweight == <<"l", "i", "g", "h", "t", "w", "e", "i", "g", "h", "t">>
kw_modular == <<"m", "o", "d", "u", "l", "a", "r">>
kw_prefab == <<"p", "r", "e", "f", "a", "b">>

(***************************************************************************)
(* The interpreter's tables as __init__ builds them                        *)
(***************************************************************************)
InitDefaultParams ==
    [grid_size |-> 100, floor_height |-> 300, panel_depth |-> 20,
     facade_offset |-> 50, story_count |-> 5, responsive_panels |-> TRUE,
     panel_density |-> 80, view_priority |-> 70, sun_priority |-> 80,
     panel_rotation_limit |-> 45, panel_type |-> "rectangular",
     material |-> "glass", structural_system |-> "frame"]

InitKeywordMappings ==
    (kw_high_rise :> [story_count |-> 30, panel_density |-> 90]) @@
    (kw_mid_rise :> [story_count |-> 15, panel_density |-> 80]) @@
    (kw_low_rise :> [story_count |-> 5, panel_density |-> 70]) @@
    (kw_tower :> [story_count |-> 40, panel_density |-> 85, form |-> "tower"]) @@
    (kw_dynamic :> [responsive_panels |-> TRUE, panel_rotation_limit |-> 60]) @@
    (kw_static :> [responsive_panels |-> FALSE, panel_rotation_limit |-> 0]) @@
    (kw_kinetic :> [responsive_panels |-> TRUE, panel_rotation_limit |-> 90]) @@
    (kw_adaptive :> [responsive_panels |-> TRUE, panel_rotation_limit |-> 75]) @@
    (kw_responsive :> [responsive_panels |-> TRUE]) @@
    (kw_louvres :> [panel_type |-> "louvre", panel_density |-> 90]) @@
    (kw_sunshade :> [panel_type |-> "louvre", sun_priority |-> 90, view_priority |-> 50]) @@
    (kw_sun_angle :> [sun_priority |-> 90]) @@
    (kw_solar :> [sun_priority |-> 90]) @@
    (kw_daylight :> [sun_priority |-> 80, panel_type |-> "perforated"]) @@
    (kw_shadowing :> [sun_priority |-> 90, panel_density |-> 90]) @@
    (kw_views :> [view_priority |-> 90]) @@
    (kw_framing_views :> [view_priority |-> 95, panel_density |-> 70]) @@
    (kw_transparent :> [material |-> "glass", panel_density |-> 60]) @@
    (kw_opaque :> [material |-> "solid", panel_density |-> 90]) @@
    (kw_glass :> [material |-> "glass"]) @@
    (kw_metal :> [material |-> "metal"]) @@
    (kw_wood :> [material |-> "wood"]) @@
    (kw_aluminum :> [material |-> "aluminum"]) @@
    (kw_concrete :> [material |-> "concrete"]) @@
    (kw_dense :> [panel_density |-> 90]) @@
    (kw_sparse :> [panel_density |-> 50]) @@
    (kw_porous :> [panel_density |-> 60, panel_type |-> "perforated"]) @@
    (kw_pattern :> [panel_type |-> "patterned"]) @@
    (kw_parametric :> [panel_type |-> "parametric"]) @@
    (kw_lightweight :> [structural_system |-> "lightweight"]) @@
    (kw_modular :> [grid_size |-> 120, structural_system |-> "modular"]) @@
    (kw_prefab :> [structural_system |-> "modular"])

\* Each group's regex is one capturing group of literal alternatives; the
\* alternatives are kept in the order the regex lists them.
InitPatterns ==
    << <<"building_type",
         <<kw_high_rise, kw_mid_rise, kw_low_rise, kw_tower, kw_building>> >>,
       <<"facade_type",
         <<kw_dynamic, kw_kinetic, kw_adaptive, kw_responsive, kw_static,
           kw_louvres, kw_sunshade>> >>,
       <<"environment",
         <<kw_sun_angle, kw_solar, kw_daylight, kw_shadowing, kw_climate,
           kw_weather, kw_temperature>> >>,
       <<"views",
         <<kw_views, kw_framing_views, kw_panorama, kw_outlook, kw_vista>> >>,
       <<"materials",
         <<kw_glass, kw_metal, kw_wood, kw_aluminum, kw_concrete,
           kw_transparent, kw_opaque>> >>,
       <<"pattern",
         <<kw_dense, kw_sparse, kw_porous, kw_pattern, kw_parametric>> >>,
       <<"structure",
         <<kw_lightweight, kw_modular, kw_prefab>> >> >>

(***************************************************************************)
(* re.findall(pattern, text) for a pattern (a1|a2|...) of literals         *)
(***************************************************************************)
\* A match that must stand between word boundaries (\b on both sides).
MatchAtWordBoundary(text, i, alt) ==
    /\ i + Len(alt) - 1 <= Len(text)
    /\ \A j \in 1..Len(alt) : text[i + j - 1] = alt[j]
    /\ i > 1 => ~(\E c \in 1..Len(LowerCase) : LowerCase[c] = text[i - 1])
    /\ i + Len(alt) <= Len(text) =>
          ~(\E c \in 1..Len(LowerCase) : LowerCase[c] = text[i + Len(alt)])

\* alt matches text at index i
MatchAt(text, i, alt) ==
    /\ i + Len(alt) - 1 <= Len(text)
    /\ \A j \in 1..Len(alt) : text[i + j - 1] = alt[j]

\* The alternative the regex engine takes at index i: the first, in the order
\* the pattern lists them, that matches there; 0 when none does.
Alternative(text, i, alts) ==
    LET hits == {a \in 1..Len(alts) : MatchAt(text, i, alts[a])}
    IN  IF hits = {} THEN 0 ELSE CHOOSE a \in hits : \A b \in hits : a <= b

RECURSIVE ScanFrom(_, _, _)
\* The scan of findall: leftmost match first, then on from the end of that
\* match; with one capturing group each match gives the group's text.
ScanFrom(alts, text, i) ==
    IF i > Len(text) THEN <<>>
    ELSE LET a == Alternative(text, i, alts)
         IN  IF a = 0 THEN ScanFrom(alts, text, i + 1)
             ELSE <<alts[a]>> \o ScanFrom(alts, text, i + Len(alts[a]))

\* A search that stops at the first match (re.search in place of re.findall).
FindFirst(alts, text) ==
    LET all == ScanFrom(alts, text, 1)
    IN  IF all = <<>> THEN <<>> ELSE <<all[1]>>

RECURSIVE ScanEachAlternative(_, _, _)
ScanEachAlternative(alts, text, a) ==
    IF a > Len(alts) THEN <<>>
    ELSE ScanFrom(<<alts[a]>>, text, 1) \o ScanEachAlternative(alts, text, a + 1)

\* A search that looks for the alternatives one after the other, each over
\* the whole text.
FindAllPerAlternative(alts, text) == ScanEachAlternative(alts, text, 1)

FindAll(alts, text) == ScanFrom(alts, text, 1)

(***************************************************************************)
(* _extract_keywords                                                       *)
(***************************************************************************)
\* A brief is a value [type, text]: Python does not check the annotation
\* brief: str, so the caller may pass any object; text is the str's
\* characters and <<>> for an object that is no str.
IsStr(b) == b.type = "str"

\* brief.lower() fails on an empty str too.
LowerRaisesOnEmpty(b) == ~IsStr(b) \/ b.text = <<>>

\* brief.lower() raises AttributeError when brief has no method lower.
LowerRaises(b) == ~IsStr(b)

\* The exception brief.lower() raises for an object without that attribute.
AttributeError(b) == [type |-> "AttributeError", arg |-> <<b.type, "lower">>]

RECURSIVE ExtractFromEveryGroup(_, _, _)
\* A loop that enters every group in results, matched or not.
ExtractFromEveryGroup(pats, text, g) ==
    IF g > Len(pats) THEN <<>>
    ELSE << <<pats[g][1], FindAll(pats[g][2], text)>> >>
         \o ExtractFromEveryGroup(pats, text, g + 1)

RECURSIVE ExtractFrom(_, _, _)
\* The loop over self.patterns.items(), from group g on: a group is entered
\* in results only when it has a match.
ExtractFrom(pats, text, g) ==
    IF g > Len(pats) THEN <<>>
    ELSE LET matches == FindAll(pats[g][2], text)
         IN  (IF matches # <<>> THEN << <<pats[g][1], matches>> >> ELSE <<>>)
             \o ExtractFrom(pats, text, g + 1)

\* The dict _extract_keywords returns for a str, in insertion order.
ExtractKeywords(pats, b) == ExtractFrom(pats, Lower(b.text), 1)

(***************************************************************************)
(* _derive_parameters                                                      *)
(***************************************************************************)
RECURSIVE Flatten(_)
\* The words in the order the nested loops
\*   for category, words in keywords.items(): for word in words:
\* visit them.
Flatten(kws) ==
    IF kws = <<>> THEN <<>> ELSE kws[1][2] \o Flatten(Tail(kws))

\* The loops visit the words from the last to the first.
FlattenReversed(kws) ==
    LET f == Flatten(kws) IN [i \in 1..Len(f) |-> f[Len(f) + 1 - i]]

\* The order in which _derive_parameters visits the extracted words.
VisitOrder(kws) == Flatten(kws)

\* An update that resets every key the rule does not list to its default.
ApplyRuleOntoDefaults(d, rule) ==
    [k \in DOMAIN InitDefaultParams \cup DOMAIN rule |->
        IF k \in DOMAIN rule THEN rule[k] ELSE InitDefaultParams[k]]

\* An update that adds a number to the number the key holds (params[key] +=
\* value) and replaces any other value.
ApplyRuleAdding(d, rule) ==
    [k \in DOMAIN d \cup DOMAIN rule |->
        IF k \notin DOMAIN rule THEN d[k]
        ELSE IF k \in DOMAIN d /\ k \in {"story_count", "panel_rotation_limit",
                                          "panel_density", "view_priority",
                                          "sun_priority", "grid_size"}
             THEN d[k] + rule[k]
             ELSE rule[k]]

\* for key, value in rule.items(): params[key] = value
ApplyRule(d, rule) ==
    [k \in DOMAIN d \cup DOMAIN rule |->
        IF k \in DOMAIN rule THEN rule[k] ELSE d[k]]

\* A word without a rule is given the rule of the first keyword of the table.
ApplyWordAlways(d, mappings, word) ==
    IF word \in DOMAIN mappings THEN ApplyRule(d, mappings[word])
    ELSE ApplyRule(d, mappings[kw_high_rise])

\* The body of the inner loop for one word.
ApplyWord(d, mappings, word) ==
    IF word \in DOMAIN mappings THEN ApplyRule(d, mappings[word]) ELSE d

\* params = self.default_params: the local name bound to the shared dict.
NoCopy(t) == "self.default_params"

\* params = self.default_params.copy(): the local name is bound to a new dict.
CopyTarget(t) == "local"

\* The dict the local name params of thread t refers to.
Params(t) ==
    IF params_ref[t] = "self.default_params" THEN default_params
    ELSE local_params[t]

(***************************************************************************)
(* _generate_operations and the six domain generators                      *)
(*                                                                         *)
(* A generator gives [raised, key, operations]: reading params[k] for a    *)
(* key the dict does not hold raises KeyError(k), and the keys are read in *)
(* the order the dict literals list them.  An operation is a record        *)
(* [operation, params].                                                    *)
(***************************************************************************)
KeyError(k) == [raised |-> TRUE, key |-> k, operations |-> <<>>]
Built(ops) == [raised |-> FALSE, key |-> "", operations |-> ops]

\* The first key of the sequence keys that dict d does not hold; "" if it
\* holds them all.
FirstMissing(d, keys) ==
    IF \A i \in 1..Len(keys) : keys[i] \in DOMAIN d THEN ""
    ELSE keys[CHOOSE i \in 1..Len(keys) :
                 keys[i] \notin DOMAIN d /\ \A j \in 1..(i - 1) : keys[j] \in DOMAIN d]

\* params.get("design_domain", "facade")
DesignDomain(params) ==
    IF "design_domain" \in DOMAIN params THEN params.design_domain ELSE "facade"

\* Facade operations with the three analyses whether or not the panels
\* respond.
GenerateFacadeOperationsAlwaysAnalysing(params) ==
    LET missing == FirstMissing(params,
            <<"story_count", "floor_height", "grid_size", "facade_offset",
              "panel_type", "panel_density", "material", "structural_system",
              "responsive_panels", "sun_priority", "view_priority",
              "panel_rotation_limit">>)
    IN  IF missing # "" THEN KeyError(missing)
        ELSE Built(
            << [operation |-> "create_building_envelope",
                params |-> [story_count |-> params.story_count,
                            floor_height |-> params.floor_height,
                            grid_size |-> params.grid_size]],
               [operation |-> "create_facade_system",
                params |-> [offset |-> params.facade_offset,
                            panel_type |-> params.panel_type,
                            panel_density |-> params.panel_density,
                            material |-> params.material,
                            structural_system |-> params.structural_system]],
               [operation |-> "analyze_sun_angles",
                params |-> [priority |-> params.sun_priority]],
               [operation |-> "analyze_view_corridors",
                params |-> [priority |-> params.view_priority]],
               [operation |-> "generate_panel_rotations",
                params |-> [rotation_limit |-> params.panel_rotation_limit,
                            sun_priority |-> params.sun_priority,
                            view_priority |-> params.view_priority]],
               [operation |-> "generate_facade_geometry", params |-> params] >>)

GenerateFacadeOperations(params) ==
    LET missing == FirstMissing(params,
            <<"story_count", "floor_height", "grid_size", "facade_offset",
              "panel_type", "panel_density", "material", "structural_system",
              "responsive_panels">>)
        missingResponsive == FirstMissing(params,
            <<"sun_priority", "view_priority", "panel_rotation_limit">>)
    IN  IF missing # "" THEN KeyError(missing)
        ELSE IF params.responsive_panels /\ missingResponsive # ""
        THEN KeyError(missingResponsive)
        ELSE Built(
            << [operation |-> "create_building_envelope",
                params |-> [story_count |-> params.story_count,
                            floor_height |-> params.floor_height,
                            grid_size |-> params.grid_size]],
               [operation |-> "create_facade_system",
                params |-> [offset |-> params.facade_offset,
                            panel_type |-> params.panel_type,
                            panel_density |-> params.panel_density,
                            material |-> params.material,
                            structural_system |-> params.structural_system]] >>
            \o (IF params.responsive_panels
                THEN << [operation |-> "analyze_sun_angles",
                         params |-> [priority |-> params.sun_priority]],
                        [operation |-> "analyze_view_corridors",
                         params |-> [priority |-> params.view_priority]],
                        [operation |-> "generate_panel_rotations",
                         params |-> [rotation_limit |-> params.panel_rotation_limit,
                                     sun_priority |-> params.sun_priority,
                                     view_priority |-> params.view_priority]] >>
                ELSE <<>>)
            \o << [operation |-> "generate_facade_geometry", params |-> params] >>)

GenerateFloorPlanOperations(params) ==
    LET missing == FirstMissing(params,
            <<"floor_area", "program_type", "room_count", "open_plan",
              "corridor_width", "room_division">>)
    IN  IF missing # "" THEN KeyError(missing)
        ELSE Built(
            << [operation |-> "create_floor_boundary",
                params |-> [area |-> params.floor_area,
                            proportions |-> "rectangular"]],
               [operation |-> "generate_program_zones",
                params |-> [program_type |-> params.program_type,
                            room_count |-> params.room_count,
                            open_plan |-> params.open_plan]],
               [operation |-> "create_circulation",
                params |-> [corridor_width |-> params.corridor_width,
                            room_division |-> params.room_division]] >>
            \o (IF ~params.open_plan
                THEN << [operation |-> "create_partitions",
                         params |-> [room_division |-> params.room_division,
                                     room_count |-> params.room_count]] >>
                ELSE <<>>)
            \o << [operation |-> "place_furniture",
                   params |-> [program_type |-> params.program_type,
                               density |-> 70]] >>)

\* site_area is the product of two lengths in hundredths and so is held in
\* ten-thousandths.
GenerateUrbanOperations(params) ==
    LET missing == FirstMissing(params,
            <<"block_size", "street_width", "building_coverage", "density",
              "building_height_avg", "mixed_use">>)
    IN  IF missing # "" THEN KeyError(missing)
        ELSE Built(
            << [operation |-> "create_site_boundary",
                params |-> [site_area |-> params.block_size * params.block_size * 4,
                            site_proportions |-> "rectangular"]],
               [operation |-> "generate_street_network",
                params |-> [block_size |-> params.block_size,
                            street_width |-> params.street_width,
                            network_type |-> "grid"]],
               [operation |-> "create_building_footprints",
                params |-> [coverage |-> params.building_coverage,
                            density |-> params.density]],
               [operation |-> "generate_building_massing",
                params |-> [height_avg |-> params.building_height_avg,
                            height_variation |-> 30,
                            mixed_use |-> params.mixed_use]],
               [operation |-> "add_public_spaces",
                params |-> [ratio |-> 20, distribution |-> "central"]] >>)

GenerateLandscapeOperations(params) ==
    LET missing == FirstMissing(params,
            <<"terrain_complexity", "topography_variation", "path_complexity",
              "vegetation_density", "water_features">>)
    IN  IF missing # "" THEN KeyError(missing)
        ELSE Built(
            << [operation |-> "create_terrain",
                params |-> [area |-> 10000,
                            complexity |-> params.terrain_complexity,
                            height_variation |-> params.topography_variation]],
               [operation |-> "generate_path_network",
                params |-> [complexity |-> params.path_complexity,
                            path_width |-> 200]],
               [operation |-> "add_vegetation",
                params |-> [density |-> params.vegetation_density,
                            types |-> <<"trees", "shrubs", "ground_cover">>]] >>
            \o (IF params.water_features
                THEN << [operation |-> "add_water_features",
                         params |-> [type |-> "pond", area_ratio |-> 15]] >>
                ELSE <<>>)
            \o << [operation |-> "add_site_furniture",
                   params |-> [density |-> 50]] >>)

GenerateStructureOperations(params) ==
    LET missing == FirstMissing(params,
            <<"structural_grid", "structural_system", "column_dimensions",
              "structural_material", "beam_depth">>)
    IN  IF missing # "" THEN KeyError(missing)
        ELSE Built(
            << [operation |-> "create_structural_grid",
                params |-> [grid_size |-> params.structural_grid,
                            system_type |-> params.structural_system]],
               [operation |-> "generate_columns",
                params |-> [dimensions |-> params.column_dimensions,
                            material |-> params.structural_material]],
               [operation |-> "generate_beams",
                params |-> [depth |-> params.beam_depth,
                            material |-> params.structural_material]],
               [operation |-> "generate_floor_slabs",
                params |-> [thickness |-> 20,
                            material |-> params.structural_material]],
               [operation |-> "create_lateral_system",
                params |-> [type |-> "bracing",
                            material |-> params.structural_material]] >>)

GenerateParametricFormOperations(params) ==
    LET missing == FirstMissing(params,
            <<"subdivision_level", "attractor_points", "iterations",
              "complexity", "symmetry">>)
    IN  IF missing # "" THEN KeyError(missing)
        ELSE Built(
            << [operation |-> "create_base_geometry",
                params |-> [type |-> "box", dimensions |-> <<10, 10, 10>>]],
               [operation |-> "apply_subdivision",
                params |-> [level |-> params.subdivision_level,
                            method |-> "catmull-clark"]],
               [operation |-> "create_attractors",
                params |-> [count |-> params.attractor_points, influence |-> 70]],
               [operation |-> "apply_deformation",
                params |-> [iterations |-> params.iterations,
                            strength |-> params.complexity]] >>
            \o (IF params.symmetry # "none"
                THEN << [operation |-> "apply_symmetry",
                         params |-> [type |-> params.symmetry,
                                     preserve_original |-> TRUE]] >>
                ELSE <<>>))

\* A chain that ends in else: a domain no branch names gets the facade
\* operations.
DomainOperationsDefaultFacade(domain, params) ==
    CASE domain = "floor_plan" -> GenerateFloorPlanOperations(params)
      [] domain = "urban" -> GenerateUrbanOperations(params)
      [] domain = "landscape" -> GenerateLandscapeOperations(params)
      [] domain = "structure" -> GenerateStructureOperations(params)
      [] domain = "parametric_form" -> GenerateParametricFormOperations(params)
      [] OTHER -> GenerateFacadeOperations(params)

\* The if/elif chain of _generate_operations; a domain none of the branches
\* names adds no operation.
DomainOperations(domain, params) ==
    CASE domain = "facade" -> GenerateFacadeOperations(params)
      [] domain = "floor_plan" -> GenerateFloorPlanOperations(params)
      [] domain = "urban" -> GenerateUrbanOperations(params)
      [] domain = "landscape" -> GenerateLandscapeOperations(params)
      [] domain = "structure" -> GenerateStructureOperations(params)
      [] domain = "parametric_form" -> GenerateParametricFormOperations(params)
      [] OTHER -> Built(<<>>)

\* The keys the dict of the first operation reads from params, in order.
InitialKeys == <<"grid_size", "material", "color_scheme">>

GenerateOperations(params) ==
    LET design_domain == DesignDomain(params)
        missing == FirstMissing(params, InitialKeys)
        domain_ops == DomainOperations(design_domain, params)
    IN  IF missing # "" THEN KeyError(missing)
        ELSE IF domain_ops.raised THEN domain_ops
        ELSE Built(
            << [operation |-> "initialize_design",
                params |-> [k \in {"design_domain"} \cup {InitialKeys[i] : i \in 1..Len(InitialKeys)} |->
                               IF k = "design_domain" THEN design_domain
                               ELSE params[k]]] >>
            \o domain_ops.operations
            \o << [operation |-> "finalize_design",
                   params |-> [design_domain |-> design_domain,
                               export_format |-> "3dm",
                               add_metadata |-> TRUE]] >>)

(***************************************************************************)
(* _generate_rhino_code and _generate_grasshopper_code                     *)
(*                                                                         *)
(* A script text is held as what the templates are filled from: the        *)
(* template chosen, the design domain substituted into it, and the         *)
(* parameters gathered from the operations, which the templates read with  *)
(* params.get(key, default).                                               *)
(***************************************************************************)
IndexError == [raised |-> TRUE, type |-> "IndexError", arg |-> <<"list index out of range">>]

\* params = {}; for op in operations: params.update(op.get("params", {}))
RECURSIVE Gathered(_)
Gathered(operations) ==
    IF operations = <<>> THEN [k \in {} |-> 0]
    ELSE LET n == Len(operations)
         IN  operations[n].params @@ Gathered(SubSeq(operations, 1, n - 1))

\* design_domain.replace(" ", "_"), on the domain names the code lists.
ReplaceBlanks(domain) ==
    CASE domain = "floor layout" -> "floor_layout"
      [] domain = "urban design" -> "urban_design"
      [] domain = "landscape design" -> "landscape_design"
      [] OTHER -> domain

\* The if/elif chain that selects the domain-specific generator.
RhinoGenerator(domain) ==
    CASE domain = "facade" -> "_generate_facade_rhino_code"
      [] domain \in {"floor_plan", "floor layout"} -> "_generate_floor_plan_rhino_code"
      [] domain \in {"urban", "urban design"} -> "_generate_urban_rhino_code"
      [] domain \in {"landscape", "landscape design"} -> "_generate_landscape_rhino_code"
      [] domain \in {"structure", "structural"} -> "_generate_structure_rhino_code"
      [] domain \in {"parametric_form", "form"} -> "_generate_parametric_form_rhino_code"
      [] OTHER -> "_generate_facade_rhino_code"

\* The generators that are placeholders gather no parameters.
Placeholders ==
    {"_generate_landscape_rhino_code", "_generate_parametric_form_rhino_code"}

\* column_dimensions = params.get("dimensions", [0.4, 0.4]), a list the
\* structure template reads at [0] and [1].
ColumnDimensions(params) ==
    IF "dimensions" \in DOMAIN params THEN params.dimensions ELSE <<40, 40>>

GenerateRhinoCode(operations) ==
    IF operations = <<>>
    THEN [raised |-> FALSE, template |-> "no_operations", layer |-> "",
          params |-> [k \in {} |-> 0]]
    ELSE LET first == operations[1].params
             design_domain == IF "design_domain" \in DOMAIN first
                              THEN first.design_domain ELSE "facade"
             generator == RhinoGenerator(design_domain)
         IN  IF generator = "_generate_structure_rhino_code"
                /\ Len(ColumnDimensions(Gathered(operations))) < 2
             THEN IndexError
             ELSE [raised |-> FALSE, template |-> generator,
                   layer |-> ReplaceBlanks(design_domain),
                   params |-> IF generator \in Placeholders THEN [k \in {} |-> 0]
                              ELSE Gathered(operations)]

GenerateGrasshopperCode(operations) ==
    IF operations = <<>> THEN IndexError
    ELSE IF "design_domain" \notin DOMAIN operations[1].params
    THEN [raised |-> TRUE, type |-> "KeyError", arg |-> <<"design_domain">>]
    ELSE [raised |-> FALSE, template |-> "grasshopper",
          design_domain |-> operations[1].params.design_domain]

(***************************************************************************)
(* The inputs                                                              *)
(***************************************************************************)
Str(chars) == [type |-> "str", text |-> chars]
NotAStr == [type |-> "NoneType", text |-> <<>>]
\* Words of a brief that are no keyword, or hold one inside a longer word.
w_a == <<"a">>
w_and == <<"a", "n", "d">>
w_facade == <<"f", "a", "c", "a", "d", "e">>
w_ecstatic == <<"e", "c", "s", "t", "a", "t", "i", "c">>
w_towers == <<"t", "o", "w", "e", "r", "s">>
w_woodland == <<"w", "o", "o", "d", "l", "a", "n", "d">>
w_louvrestatic == <<"l", "o", "u", "v", "r", "e", "s", "t", "a", "t", "i", "c">>
w_digits == <<"1", "2", "3">>
w_marks == <<"!", "?">>
\* After the example of the tool's docstring.
text_docstring ==
    <<"I", " ", "n", "e", "e", "d", " ", "a", " ", "d", "y", "n", "a", "m", "i", "c", " ",
      "f", "a", "c", "a", "d", "e", " ", "t", "h", "a", "t", " ",
      "r", "e", "s", "p", "o", "n", "d", "s", " ", "t", "o", " ",
      "s", "u", "n", " ", "a", "n", "g", "l", "e", " ", "a", "n", "d", " ",
      "f", "r", "a", "m", "e", "s", " ", "v", "i", "e", "w", "s">>

RECURSIVE Join(_)
\* The words with one blank between them.
Join(ws) ==
    IF ws = <<>> THEN <<>>
    ELSE IF Len(ws) = 1 THEN ws[1]
    ELSE ws[1] \o <<" ">> \o Join(Tail(ws))

UpperChar(c) ==
    IF \E i \in 1..Len(LowerCase) : LowerCase[i] = c
    THEN UpperCase[CHOOSE i \in 1..Len(LowerCase) : LowerCase[i] = c]
    ELSE c

IsLetter(c) ==
    \E i \in 1..Len(LowerCase) : LowerCase[i] = c \/ UpperCase[i] = c

\* The text in one of three spellings: as written, in capitals, or with the
\* first letter of every word a capital.
Spelled(s, mode) ==
    [i \in 1..Len(s) |->
        CASE mode = "upper" -> UpperChar(s[i])
          [] mode = "title" ->
                IF i = 1 \/ ~IsLetter(s[i - 1]) THEN UpperChar(s[i]) ELSE s[i]
          [] OTHER -> s[i]]

Spellings == {"plain", "upper", "title"}

text_dynamic_static == Join(<<w_a, kw_dynamic, w_and, kw_static, w_facade>>)
text_static_dynamic == Join(<<w_a, kw_static, w_and, kw_dynamic, w_facade>>)
text_sparse_high_rise == Join(<<kw_sparse, kw_high_rise>>)
text_high_rise_sparse == Join(<<kw_high_rise, kw_sparse>>)

\* Briefs written out in full.
LiteralTexts ==
    { <<>>,
      Join(<<w_digits, w_marks>>),
      Join(<<w_a, w_facade>>),
      text_dynamic_static,
      text_static_dynamic,
      text_sparse_high_rise,
      text_high_rise_sparse,
      Join(<<kw_dynamic, kw_static, kw_kinetic>>),
      Join(<<kw_static, kw_responsive>>),
      Join(<<w_a, kw_sparse, kw_tower>>),
      Join(<<kw_tower, kw_high_rise>>),
      Join(<<kw_high_rise, kw_tower>>),
      kw_high_rise,
      w_ecstatic,
      w_towers,
      w_woodland,
      w_louvrestatic,
      Join(<<kw_dynamic, w_louvrestatic>>),
      kw_framing_views,
      kw_sun_angle,
      Join(<<kw_glass, kw_wood, kw_glass>>),
      Join(<<kw_building, w_and, kw_vista>>),
      Join(<<kw_climate, kw_panorama>>),
      Join(<<kw_modular, kw_tower, kw_views>>),
      text_docstring }

\* The words the generated briefs are made of.
Vocabulary ==
    {kw_tower, kw_high_rise, kw_sparse, kw_dynamic, kw_static, kw_kinetic,
     kw_responsive, kw_building, kw_wood, w_facade}

\* The longest generated brief, in words.
MaxWords == 2

RECURSIVE WordLists(_)
WordLists(n) ==
    IF n = 0 THEN {<<>>}
    ELSE LET shorter == WordLists(n - 1)
         IN  shorter \cup {Append(ws, w) : ws \in shorter, w \in Vocabulary}

GeneratedTexts == {Join(ws) : ws \in WordLists(MaxWords)}

\* What a caller may pass: any of the texts in any of the spellings, or an
\* object that is no str.
Briefs ==
    {Str(Spelled(s, m)) : s \in LiteralTexts, m \in Spellings}
    \cup {Str(s) : s \in GeneratedTexts}
    \cup {Str(w) : w \in DOMAIN InitKeywordMappings}
    \cup {NotAStr}

\* The briefs of the runs that remember an earlier call.
SeqBriefs ==
    {Str(Spelled(s, m)) : s \in LiteralTexts, m \in Spellings} \cup {NotAStr}

(***************************************************************************)
(* The state machine                                                       *)
(***************************************************************************)
NoText == Str(<<>>)
NoDict == [k \in {} |-> 0]
NoOutcome == [status |-> "none", keywords |-> <<>>, params |-> NoDict]
NoException == [type |-> "none", arg |-> <<>>]
NoResponse == [kind |-> "none"]
NoScript == [raised |-> FALSE, template |-> "none"]
NoGen == [pc |-> "idle", params |-> NoDict, operations |-> <<>>,
          rhino |-> NoScript, grasshopper |-> NoScript, exception |-> NoException]

Init ==
    /\ default_params = InitDefaultParams
    /\ keyword_mappings = InitKeywordMappings
    /\ patterns = InitPatterns
    /\ pc = [t \in Threads |-> "idle"]
    /\ brief = [t \in Threads |-> NoText]
    /\ keywords = [t \in Threads |-> <<>>]
    /\ params_ref = [t \in Threads |-> "none"]
    /\ local_params = [t \in Threads |-> NoDict]
    /\ todo = [t \in Threads |-> <<>>]
    /\ outcome = [t \in Threads |-> NoOutcome]
    /\ seen = <<>>
    /\ entry = [t \in Threads |-> "none"]
    /\ exception = [t \in Threads |-> NoException]
    /\ response = [t \in Threads |-> NoResponse]
    /\ gen = NoGen

\* A caller passes b to the resolver.
Call(t, b) ==
    /\ pc[t] = "idle"
    /\ pc' = [pc EXCEPT ![t] = "extract"]
    /\ brief' = [brief EXCEPT ![t] = b]
    /\ entry' = [entry EXCEPT ![t] = "resolver"]
    /\ UNCHANGED <<interp, keywords, params_ref, local_params, todo, outcome, seen,
                   exception, response, gen>>

\* _extract_keywords(brief), when brief.lower() raises.
ExtractRaises(t) ==
    /\ pc[t] = "extract"
    /\ LowerRaises(brief[t])
    /\ pc' = [pc EXCEPT ![t] = "raised"]
    /\ outcome' = [outcome EXCEPT ![t] =
                      [status |-> "AttributeError", keywords |-> <<>>, params |-> NoDict]]
    /\ exception' = [exception EXCEPT ![t] = AttributeError(brief[t])]
    /\ UNCHANGED <<interp, brief, keywords, params_ref, local_params, todo, seen,
                   entry, response, gen>>

\* _extract_keywords(brief), for a str.
Extract(t) ==
    /\ pc[t] = "extract"
    /\ ~LowerRaises(brief[t])
    /\ keywords' = [keywords EXCEPT ![t] = ExtractKeywords(patterns, brief[t])]
    /\ pc' = [pc EXCEPT ![t] = "derive"]
    /\ UNCHANGED <<interp, brief, params_ref, local_params, todo, outcome, seen, api, gen>>

\* _derive_parameters: params = self.default_params.copy(), and the loops start.
DeriveCopy(t) ==
    /\ pc[t] = "derive"
    /\ params_ref' = [params_ref EXCEPT ![t] = CopyTarget(t)]
    /\ local_params' = IF CopyTarget(t) = "local"
                       THEN [local_params EXCEPT ![t] = default_params]
                       ELSE local_params
    /\ todo' = [todo EXCEPT ![t] = VisitOrder(keywords[t])]
    /\ pc' = [pc EXCEPT ![t] = "loop"]
    /\ UNCHANGED <<interp, brief, keywords, outcome, seen, api, gen>>

\* _derive_parameters: one pass of the inner loop; the writes go to the dict
\* the name params refers to.
DeriveWord(t) ==
    /\ pc[t] = "loop"
    /\ todo[t] # <<>>
    /\ LET d == ApplyWord(Params(t), keyword_mappings, Head(todo[t]))
       IN  IF params_ref[t] = "self.default_params"
           THEN default_params' = d /\ UNCHANGED local_params
           ELSE local_params' = [local_params EXCEPT ![t] = d]
                /\ UNCHANGED default_params
    /\ todo' = [todo EXCEPT ![t] = Tail(todo[t])]
    /\ UNCHANGED <<keyword_mappings, patterns, pc, brief, keywords, params_ref,
                   outcome, seen, api, gen>>

\* _derive_parameters: return params.
DeriveReturn(t) ==
    /\ pc[t] = "loop"
    /\ todo[t] = <<>>
    /\ outcome' = [outcome EXCEPT ![t] =
                      [status |-> "returned", keywords |-> keywords[t],
                       params |-> Params(t)]]
    /\ pc' = [pc EXCEPT ![t] = "done"]
    /\ UNCHANGED <<interp, brief, keywords, params_ref, local_params, todo, seen, api, gen>>

Ended(t) == pc[t] \in {"done", "raised"}

\* The caller has its answer; the frame of the call is gone.
Finish(t) ==
    /\ Ended(t)
    /\ entry[t] = "resolver"
    /\ pc' = [pc EXCEPT ![t] = "idle"]
    /\ brief' = [brief EXCEPT ![t] = NoText]
    /\ keywords' = [keywords EXCEPT ![t] = <<>>]
    /\ params_ref' = [params_ref EXCEPT ![t] = "none"]
    /\ local_params' = [local_params EXCEPT ![t] = NoDict]
    /\ todo' = [todo EXCEPT ![t] = <<>>]
    /\ outcome' = [outcome EXCEPT ![t] = NoOutcome]
    /\ entry' = [entry EXCEPT ![t] = "none"]
    /\ exception' = [exception EXCEPT ![t] = NoException]
    /\ UNCHANGED <<interp, seen, response, gen>>

\* As Finish, and the call that has just ended is remembered, if none is yet.
FinishObserved(t) ==
    /\ Ended(t)
    /\ entry[t] = "resolver"
    /\ seen = <<>>
    /\ seen' = <<[brief |-> brief[t], outcome |-> outcome[t]]>>
    /\ pc' = [pc EXCEPT ![t] = "idle"]
    /\ brief' = [brief EXCEPT ![t] = NoText]
    /\ keywords' = [keywords EXCEPT ![t] = <<>>]
    /\ params_ref' = [params_ref EXCEPT ![t] = "none"]
    /\ local_params' = [local_params EXCEPT ![t] = NoDict]
    /\ todo' = [todo EXCEPT ![t] = <<>>]
    /\ outcome' = [outcome EXCEPT ![t] = NoOutcome]
    /\ entry' = [entry EXCEPT ![t] = "none"]
    /\ exception' = [exception EXCEPT ![t] = NoException]
    /\ UNCHANGED <<interp, response, gen>>

(***************************************************************************)
(* interpret_brief                                                         *)
(***************************************************************************)
\* except clauses that let a KeyError through.
CatchesAttributeErrorOnly(e) == e.type = "AttributeError"

\* except Exception: the exceptions the methods raise are all subclasses of
\* Exception.
Catches(e) == e.type \in {"AttributeError", "TypeError", "KeyError", "IndexError"}

\* str(e): the message, and for a KeyError the repr of the key.
StrOfException(e) ==
    IF e.type = "KeyError" THEN <<"'">> \o e.arg \o <<"'">> ELSE e.arg

\* A caller passes b to interpret_brief, which enters its try block.
CallInterpret(t, b) ==
    /\ pc[t] = "idle"
    /\ pc' = [pc EXCEPT ![t] = "extract"]
    /\ brief' = [brief EXCEPT ![t] = b]
    /\ entry' = [entry EXCEPT ![t] = "interpret_brief"]
    /\ UNCHANGED <<interp, keywords, params_ref, local_params, todo, outcome, seen,
                   exception, response, gen>>

\* The rest of the try block, once _derive_parameters has returned: the
\* operations, the two scripts and the response dict, or the first exception
\* one of the generators raises.
Downstream(t) ==
    /\ pc[t] = "done"
    /\ entry[t] = "interpret_brief"
    /\ LET operations == GenerateOperations(Params(t))
           rhino_code == GenerateRhinoCode(operations.operations)
           grasshopper_code == GenerateGrasshopperCode(operations.operations)
       IN  IF operations.raised
           THEN /\ exception' = [exception EXCEPT ![t] =
                                    [type |-> "KeyError", arg |-> <<operations.key>>]]
                /\ pc' = [pc EXCEPT ![t] = "failed"]
                /\ UNCHANGED response
           ELSE IF rhino_code.raised
           THEN /\ exception' = [exception EXCEPT ![t] =
                                    [type |-> rhino_code.type,
                                     arg |-> rhino_code.arg]]
                /\ pc' = [pc EXCEPT ![t] = "failed"]
                /\ UNCHANGED response
           ELSE IF grasshopper_code.raised
           THEN /\ exception' = [exception EXCEPT ![t] =
                                    [type |-> grasshopper_code.type,
                                     arg |-> grasshopper_code.arg]]
                /\ pc' = [pc EXCEPT ![t] = "failed"]
                /\ UNCHANGED response
           ELSE /\ response' = [response EXCEPT ![t] =
                                   [kind |-> "response",
                                    brief |-> brief[t],
                                    keywords |-> keywords[t],
                                    parameters |-> Params(t),
                                    operations |-> operations.operations,
                                    rhino |-> rhino_code,
                                    grasshopper |-> grasshopper_code]]
                /\ pc' = [pc EXCEPT ![t] = "responded"]
                /\ UNCHANGED exception
    /\ UNCHANGED <<interp, brief, keywords, params_ref, local_params, todo, outcome,
                   seen, entry, gen>>

\* The except clause: the exception raised in the try block is turned into
\* the error dict, or goes on to the caller if the clause does not name it.
Catch(t) ==
    /\ pc[t] \in {"raised", "failed"}
    /\ entry[t] = "interpret_brief"
    /\ IF Catches(exception[t])
       THEN /\ response' = [response EXCEPT ![t] =
                               [kind |-> "error",
                                error |-> StrOfException(exception[t]),
                                brief |-> brief[t]]]
            /\ exception' = [exception EXCEPT ![t] = NoException]
            /\ pc' = [pc EXCEPT ![t] = "responded"]
       ELSE /\ pc' = [pc EXCEPT ![t] = "propagated"]
            /\ UNCHANGED <<exception, response>>
    /\ UNCHANGED <<interp, brief, keywords, params_ref, local_params, todo, outcome,
                   seen, entry, gen>>

Left(t) == pc[t] \in {"responded", "propagated"}

\* interpret_brief has returned or raised; its frame is gone.
Return(t) ==
    /\ Left(t)
    /\ entry[t] = "interpret_brief"
    /\ pc' = [pc EXCEPT ![t] = "idle"]
    /\ brief' = [brief EXCEPT ![t] = NoText]
    /\ keywords' = [keywords EXCEPT ![t] = <<>>]
    /\ params_ref' = [params_ref EXCEPT ![t] = "none"]
    /\ local_params' = [local_params EXCEPT ![t] = NoDict]
    /\ todo' = [todo EXCEPT ![t] = <<>>]
    /\ outcome' = [outcome EXCEPT ![t] = NoOutcome]
    /\ entry' = [entry EXCEPT ![t] = "none"]
    /\ exception' = [exception EXCEPT ![t] = NoException]
    /\ response' = [response EXCEPT ![t] = NoResponse]
    /\ UNCHANGED <<interp, seen, gen>>

Interpret(t) ==
    \/ Downstream(t)
    \/ Catch(t)
    \/ Return(t)

Resolve(t) ==
    \/ ExtractRaises(t)
    \/ Extract(t)
    \/ DeriveCopy(t)
    \/ DeriveWord(t)
    \/ DeriveReturn(t)
    \/ Finish(t)

\* One caller at a time, over all the briefs.
Next ==
    \/ \E b \in Briefs : Call(MainThread, b)
    \/ Resolve(MainThread)

Spec == Init /\ [][Next]_vars

\* One caller at a time, one earlier call remembered.
NextSeq ==
    \/ \E b \in SeqBriefs : Call(MainThread, b)
    \/ Resolve(MainThread)
    \/ FinishObserved(MainThread)

SpecSeq == Init /\ [][NextSeq]_vars

\* One caller at a time, of the resolver or of interpret_brief.
NextInterpret ==
    \/ \E b \in Briefs : Call(MainThread, b)
    \/ \E b \in Briefs : CallInterpret(MainThread, b)
    \/ Resolve(MainThread)
    \/ Interpret(MainThread)

SpecInterpret == Init /\ [][NextInterpret]_vars

\* The briefs of the callers that run at the same time.
ConcBriefs == {Str(s) : s \in LiteralTexts} \cup {NotAStr}

\* The tool's requests are served by threads that share the one interpreter
\* and take no lock: the steps of their calls interleave in any order.
NextConc ==
    \E t \in Threads :
        \/ \E b \in ConcBriefs : Call(t, b)
        \/ Resolve(t)

SpecConc == Init /\ [][NextConc]_vars

(***************************************************************************)
(* The generators called alone, as interpret_brief calls them one after    *)
(* the other (lines 1759-1764), on ParameterSets and operation lists a     *)
(* caller may pass.                                                        *)
(***************************************************************************)
\* Parameters of the other five domains, as a caller may supply them;
\* column_dimensions is a list, of two numbers or too short.
DomainParams(domain) ==
    CASE domain = "floor_plan" ->
            {[floor_area |-> 10000, program_type |-> "office", room_count |-> 6,
              open_plan |-> o, corridor_width |-> 150, room_division |-> "walls"] :
                o \in BOOLEAN}
      [] domain = "urban" ->
            {[block_size |-> 10000, street_width |-> 1200, building_coverage |-> 60,
              density |-> 70, building_height_avg |-> 2000, mixed_use |-> TRUE]}
      [] domain = "landscape" ->
            {[terrain_complexity |-> 50, topography_variation |-> 500,
              path_complexity |-> 50, vegetation_density |-> 60,
              water_features |-> w] : w \in BOOLEAN}
      [] domain = "structure" ->
            {[structural_grid |-> 600, structural_system |-> "frame",
              column_dimensions |-> c, structural_material |-> "steel",
              beam_depth |-> 60] : c \in {<<40, 40>>, <<40>>}}
      [] domain = "parametric_form" ->
            {[subdivision_level |-> 2, attractor_points |-> 3, iterations |-> 5,
              complexity |-> 50, symmetry |-> s] : s \in {"none", "radial"}}
      [] OTHER -> {}

\* The domains _generate_operations has a branch for.
KnownDomains ==
    {"facade", "floor_plan", "urban", "landscape", "structure", "parametric_form"}

\* The other names _generate_rhino_code accepts for them.
DomainAliases ==
    {"floor layout", "urban design", "landscape design", "structural", "form"}

\* Names neither method lists.
UnknownDomains == {"interior", "bridge"}

\* design_domain entries a ParameterSet may hold: none, a domain name alone,
\* or a domain name with the parameters of its domain.
DomainEntries ==
    {NoDict}
    \cup {[design_domain |-> d] : d \in KnownDomains \cup DomainAliases \cup UnknownDomains}
    \cup UNION {{[design_domain |-> d] @@ dp : dp \in DomainParams(d)} : d \in KnownDomains}

\* What the resolver gives for "", "static", "kinetic tower" and "static
\* responsive".
ResolvedSamples ==
    LET rule(w) == InitKeywordMappings[w]
    IN  { InitDefaultParams,
          ApplyRule(InitDefaultParams, rule(kw_static)),
          ApplyRule(ApplyRule(InitDefaultParams, rule(kw_tower)), rule(kw_kinetic)),
          ApplyRule(ApplyRule(InitDefaultParams, rule(kw_static)), rule(kw_responsive)) }

\* The ParameterSets the generators are called on: what the resolver gives
\* for four briefs, as it is or with color_scheme supplied, and with a
\* design_domain entry.
GenParameterSets ==
    {entries @@ colour @@ resolved :
        entries \in DomainEntries,
        colour \in {NoDict, [color_scheme |-> "neutral"]},
        resolved \in ResolvedSamples}

\* The operation lists the script generators are called on directly: the
\* empty list, and the facade operations without the first and last one.
GenOperationLists ==
    {<<>>, GenerateFacadeOperations(InitDefaultParams).operations}

\* A caller passes ParameterSet ps to _generate_operations.
CallGenerateOperations(ps) ==
    /\ gen.pc = "idle"
    /\ gen' = [gen EXCEPT !.pc = "operations", !.params = ps]
    /\ UNCHANGED <<interp, frame, seen, api>>

\* A caller passes the list ops to the two script generators.
CallGenerateCode(ops) ==
    /\ gen.pc = "idle"
    /\ gen' = [gen EXCEPT !.pc = "rhino", !.operations = ops]
    /\ UNCHANGED <<interp, frame, seen, api>>

\* operations = self._generate_operations(params)
RunGenerateOperations ==
    /\ gen.pc = "operations"
    /\ LET r == GenerateOperations(gen.params)
       IN  gen' = IF r.raised
                  THEN [gen EXCEPT !.pc = "raised",
                                   !.exception = [type |-> "KeyError", arg |-> <<r.key>>]]
                  ELSE [gen EXCEPT !.pc = "rhino", !.operations = r.operations]
    /\ UNCHANGED <<interp, frame, seen, api>>

\* rhino_code = self._generate_rhino_code(operations)
RunGenerateRhinoCode ==
    /\ gen.pc = "rhino"
    /\ LET r == GenerateRhinoCode(gen.operations)
       IN  gen' = IF r.raised
                  THEN [gen EXCEPT !.pc = "raised",
                                   !.exception = [type |-> r.type, arg |-> r.arg]]
                  ELSE [gen EXCEPT !.pc = "grasshopper", !.rhino = r]
    /\ UNCHANGED <<interp, frame, seen, api>>

\* grasshopper_code = self._generate_grasshopper_code(operations)
RunGenerateGrasshopperCode ==
    /\ gen.pc = "grasshopper"
    /\ LET r == GenerateGrasshopperCode(gen.operations)
       IN  gen' = IF r.raised
                  THEN [gen EXCEPT !.pc = "raised",
                                   !.exception = [type |-> r.type, arg |-> r.arg]]
                  ELSE [gen EXCEPT !.pc = "returned", !.grasshopper = r]
    /\ UNCHANGED <<interp, frame, seen, api>>

\* The caller has its results or its exception.
GenLeave ==
    /\ gen.pc \in {"returned", "raised"}
    /\ gen' = NoGen
    /\ UNCHANGED <<interp, frame, seen, api>>

NextGen ==
    \/ \E ps \in GenParameterSets : CallGenerateOperations(ps)
    \/ \E ops \in GenOperationLists : CallGenerateCode(ops)
    \/ RunGenerateOperations
    \/ RunGenerateRhinoCode
    \/ RunGenerateGrasshopperCode
    \/ GenLeave

SpecGen == Init /\ [][NextGen]_vars

\* The words of the briefs that differ in the order of their words: two
\* with rules on the same keys (dynamic, static), one with a rule on other
\* keys in their group (louvres), one of another group (tower), one without
\* a rule (building).
OrderVocabulary == {kw_dynamic, kw_static, kw_louvres, kw_tower, kw_building}

\* Every two and every three different words of the vocabulary, in every
\* order.
OrderBriefs ==
    {Str(Join(ws)) :
        ws \in {v \in OrderVocabulary \X OrderVocabulary : v[1] # v[2]}}
    \cup {Str(Join(ws)) :
        ws \in {v \in OrderVocabulary \X OrderVocabulary \X OrderVocabulary :
                   v[1] # v[2] /\ v[1] # v[3] /\ v[2] # v[3]}}
    \cup {NotAStr}

\* One caller at a time over those briefs, one earlier call remembered.
NextOrder ==
    \/ \E b \in OrderBriefs : Call(MainThread, b)
    \/ Resolve(MainThread)
    \/ FinishObserved(MainThread)

SpecOrder == Init /\ [][NextOrder]_vars

(***************************************************************************)
(* What the properties speak of                                            *)
(***************************************************************************)
Range(s) == {s[i] : i \in 1..Len(s)}

\* The place of group name g in the order of the pattern table.
GroupIndex(g) == CHOOSE i \in 1..Len(InitPatterns) : InitPatterns[i][1] = g

\* The group whose regex lists w.
GroupOfWord(w) ==
    CHOOSE i \in 1..Len(InitPatterns) : w \in Range(InitPatterns[i][2])

Recognized == UNION {Range(InitPatterns[i][2]) : i \in 1..Len(InitPatterns)}

\* The brief, whatever its letter case, holds no recognized keyword.
NoKeyword(b) ==
    \A w \in Recognized :
        \A i \in 1..Len(b.text) :
            ~(/\ i + Len(w) - 1 <= Len(b.text)
              /\ \A j \in 1..Len(w) :
                    b.text[i + j - 1] \in {w[j], UpperChar(w[j])})

\* The same, for a keyword w.
Mentions(b, w) ==
    \E i \in 1..Len(b.text) :
        /\ i + Len(w) - 1 <= Len(b.text)
        /\ \A j \in 1..Len(w) : b.text[i + j - 1] \in {w[j], UpperChar(w[j])}

\* The rule of word w sets parameter k.
Sets(w, k) ==
    w \in DOMAIN InitKeywordMappings /\ k \in DOMAIN InitKeywordMappings[w]

\* The resolver has returned to thread t.
Returned(t) == pc[t] = "done" /\ outcome[t].status = "returned"

\* The extracted words of thread t's call, group after group.
Visited(t) == Flatten(outcome[t].keywords)

\* Some word after place i of v sets k.
SetAfter(v, i, k) == \E j \in (i + 1)..Len(v) : Sets(v[j], k)

LastPlace(v, w) == CHOOSE i \in 1..Len(v) : v[i] = w /\ \A j \in (i + 1)..Len(v) : v[j] # w

(***************************************************************************)
(* C1: a brief that holds no recognized keyword resolves to exactly the    *)
(* default ParameterSet: the same keys with the same values, and no other  *)
(* key.                                                                    *)
(***************************************************************************)
C1_NoKeywordGivesDefaults ==
    \A t \in Threads :
        (pc[t] = "done" /\ IsStr(brief[t]) /\ NoKeyword(brief[t])) =>
            /\ outcome[t].status = "returned"
            /\ outcome[t].keywords = <<>>
            /\ DOMAIN outcome[t].params = DOMAIN InitDefaultParams
            /\ outcome[t].params = InitDefaultParams

C1_Witness ==
    \E t \in Threads :
        /\ Returned(t)
        /\ brief[t] = Str(Join(<<w_a, w_facade>>))
        /\ NoKeyword(brief[t])
        /\ outcome[t].params = InitDefaultParams

(***************************************************************************)
(* C2 as claimed: every brief that holds "tower" resolves to story_count   *)
(* 40, panel_density 0.85 and a form tag, whatever else the brief holds.   *)
(***************************************************************************)
C2_TowerAlways ==
    \A t \in Threads :
        (Returned(t) /\ Mentions(brief[t], kw_tower)) =>
            /\ "form" \in DOMAIN outcome[t].params
            /\ outcome[t].params.story_count = 40
            /\ outcome[t].params.panel_density = 85

(***************************************************************************)
(* C2 as amended: every brief that holds "tower" resolves to the form tag  *)
(* "tower"; story_count is 40 unless a keyword visited after the last      *)
(* "tower" sets story_count, and panel_density is 0.85 unless a keyword    *)
(* visited after the last "tower" sets panel_density.                      *)
(***************************************************************************)
C2_TowerUnlessOverridden ==
    \A t \in Threads :
        (Returned(t) /\ Mentions(brief[t], kw_tower)) =>
            LET v == Visited(t)
                p == outcome[t].params
            IN  /\ kw_tower \in Range(v)
                /\ "form" \in DOMAIN p
                /\ p.form = "tower"
                /\ ~SetAfter(v, LastPlace(v, kw_tower), "story_count")
                      => p.story_count = 40
                /\ ~SetAfter(v, LastPlace(v, kw_tower), "panel_density")
                      => p.panel_density = 85

\* "tower" with other keywords around it, none of them overriding it.
C2_Witness ==
    \E t \in Threads :
        /\ Returned(t)
        /\ brief[t] = Str(Join(<<kw_modular, kw_tower, kw_views>>))
        /\ Len(Visited(t)) = 3
        /\ outcome[t].params.story_count = 40
        /\ outcome[t].params.panel_density = 85
        /\ outcome[t].params.form = "tower"

(***************************************************************************)
(* C3 as claimed: when a brief holds both "dynamic" and "static",          *)
(* responsive_panels and panel_rotation_limit are those of whichever of    *)
(* the two is visited last.                                                *)
(***************************************************************************)
C3_LastOfTheTwo ==
    \A t \in Threads :
        (/\ Returned(t)
         /\ Mentions(brief[t], kw_dynamic)
         /\ Mentions(brief[t], kw_static)
         /\ kw_dynamic \in Range(Visited(t))
         /\ kw_static \in Range(Visited(t))) =>
            LET v == Visited(t)
                last == IF LastPlace(v, kw_dynamic) > LastPlace(v, kw_static)
                        THEN kw_dynamic ELSE kw_static
                p == outcome[t].params
            IN  /\ p.responsive_panels = InitKeywordMappings[last].responsive_panels
                /\ p.panel_rotation_limit = InitKeywordMappings[last].panel_rotation_limit

(***************************************************************************)
(* C3 as amended: when both "dynamic" and "static" are matched,            *)
(* responsive_panels (panel_rotation_limit) is that of whichever of the    *)
(* two is visited last, unless a keyword visited after it sets             *)
(* responsive_panels (panel_rotation_limit); "a dynamic and static facade" *)
(* gives False and 0, "a static and dynamic facade" gives True and 60.     *)
(***************************************************************************)
C3_LastOfTheTwoUnlessOverridden ==
    \A t \in Threads :
        Returned(t) =>
            LET v == Visited(t)
                p == outcome[t].params
            IN  /\ (kw_dynamic \in Range(v) /\ kw_static \in Range(v)) =>
                      LET last == IF LastPlace(v, kw_dynamic) > LastPlace(v, kw_static)
                                  THEN kw_dynamic ELSE kw_static
                          i == LastPlace(v, last)
                      IN  /\ ~SetAfter(v, i, "responsive_panels") =>
                                p.responsive_panels
                                    = InitKeywordMappings[last].responsive_panels
                          /\ ~SetAfter(v, i, "panel_rotation_limit") =>
                                p.panel_rotation_limit
                                    = InitKeywordMappings[last].panel_rotation_limit
                /\ brief[t] = Str(text_dynamic_static) =>
                      (p.responsive_panels = FALSE /\ p.panel_rotation_limit = 0)
                /\ brief[t] = Str(text_static_dynamic) =>
                      (p.responsive_panels = TRUE /\ p.panel_rotation_limit = 60)

C3_Witness ==
    \E t \in Threads :
        /\ Returned(t)
        /\ brief[t] = Str(text_dynamic_static)
        /\ Visited(t) = <<kw_dynamic, kw_static>>
        /\ outcome[t].params.responsive_panels = FALSE
        /\ outcome[t].params.panel_rotation_limit = 0

(***************************************************************************)
(* C4: the words are visited group by group in the order of the pattern    *)
(* table and, within a group, in the order of the matches; of the visited  *)
(* words that set a parameter the last one gives its value, so a keyword   *)
(* of a later group wins over one of an earlier group wherever it stands   *)
(* in the brief: "sparse high-rise" and "high-rise sparse" both give       *)
(* panel_density 0.5.                                                      *)
(***************************************************************************)
\* The places <<group, match>> of the extracted dict kws whose word sets k.
Setters(kws, k) ==
    {pl \in UNION {{<<g, m>> : m \in 1..Len(kws[g][2])} : g \in 1..Len(kws)} :
        Sets(kws[pl[1]][2][pl[2]], k)}

\* Place a comes before place b: an earlier group, or earlier in the group.
Before(a, b) == a[1] < b[1] \/ (a[1] = b[1] /\ a[2] < b[2])

C4_LaterVisitedWins ==
    \A t \in Threads :
        Returned(t) =>
            LET kws == outcome[t].keywords
                p == outcome[t].params
            IN  /\ \A g, h \in 1..Len(kws) :
                      g < h => GroupIndex(kws[g][1]) < GroupIndex(kws[h][1])
                /\ \A k \in DOMAIN InitDefaultParams \cup {"form"} :
                      LET s == Setters(kws, k)
                      IN  IF s = {}
                          THEN k \in DOMAIN p => p[k] = InitDefaultParams[k]
                          ELSE LET last == CHOOSE a \in s :
                                              \A b \in s : a = b \/ Before(b, a)
                                   w == kws[last[1]][2][last[2]]
                               IN  k \in DOMAIN p /\ p[k] = InitKeywordMappings[w][k]
                /\ brief[t] \in {Str(text_sparse_high_rise), Str(text_high_rise_sparse)}
                      => p.panel_density = 50

\* The keyword of the later group stands first in the brief and still wins.
C4_Witness ==
    \E t \in Threads :
        /\ Returned(t)
        /\ brief[t] = Str(text_sparse_high_rise)
        /\ outcome[t].keywords = << <<"building_type", <<kw_high_rise>> >>,
                                    <<"pattern", <<kw_sparse>> >> >>
        /\ outcome[t].params.panel_density = 50
        /\ outcome[t].params.story_count = 30

(***************************************************************************)
(* C5 as claimed: the group of a keyword has no part in which of two       *)
(* matched keywords wins a parameter both set; with the groups left out,   *)
(* the order of the two in the brief decides, the later one winning.       *)
(***************************************************************************)
\* Where the one occurrence of w in thread t's lowered brief starts.
PlaceInText(t, w) ==
    CHOOSE i \in 1..Len(brief[t].text) : MatchAt(Lower(brief[t].text), i, w)

\* Thread t's call matched exactly two keywords, different ones.
TwoMatched(t) ==
    /\ Returned(t)
    /\ Len(Visited(t)) = 2
    /\ Visited(t)[1] # Visited(t)[2]

LaterInText(t, a, b) == IF PlaceInText(t, a) > PlaceInText(t, b) THEN a ELSE b

C5_GroupsDoNotDecide ==
    \A t \in Threads :
        TwoMatched(t) =>
            LET a == Visited(t)[1]
                b == Visited(t)[2]
            IN  \A k \in DOMAIN InitDefaultParams :
                    (Sets(a, k) /\ Sets(b, k)) =>
                        outcome[t].params[k]
                            = InitKeywordMappings[LaterInText(t, a, b)][k]

(***************************************************************************)
(* C5 as amended: the group of a keyword has no part in which of two       *)
(* matched keywords of the same group wins a parameter both set (the one   *)
(* later in the brief wins); of two keywords of different groups the one   *)
(* whose group comes later in the pattern table wins, wherever the two     *)
(* stand in the brief.                                                     *)
(***************************************************************************)
C5_GroupOrderThenTextOrder ==
    \A t \in Threads :
        TwoMatched(t) =>
            LET a == Visited(t)[1]
                b == Visited(t)[2]
                winner == IF GroupOfWord(a) = GroupOfWord(b)
                          THEN LaterInText(t, a, b)
                          ELSE IF GroupOfWord(a) > GroupOfWord(b) THEN a ELSE b
            IN  \A k \in DOMAIN InitDefaultParams :
                    (Sets(a, k) /\ Sets(b, k)) =>
                        outcome[t].params[k] = InitKeywordMappings[winner][k]

\* Two keywords of different groups set panel_density; the one earlier in the
\* brief is of the later group and wins.
C5_Witness ==
    \E t \in Threads :
        /\ TwoMatched(t)
        /\ Sets(Visited(t)[1], "panel_density")
        /\ Sets(Visited(t)[2], "panel_density")
        /\ GroupOfWord(Visited(t)[1]) < GroupOfWord(Visited(t)[2])
        /\ PlaceInText(t, Visited(t)[1]) > PlaceInText(t, Visited(t)[2])
        /\ outcome[t].params.panel_density
              = InitKeywordMappings[Visited(t)[2]].panel_density
        /\ outcome[t].params.panel_density
              # InitKeywordMappings[Visited(t)[1]].panel_density

(***************************************************************************)
(* C6: for each group, extraction gives the group's matches in the order   *)
(* they stand in the brief, and as often as they stand there: when the     *)
(* occurrences of the group's keywords do not overlap, the group's         *)
(* sequence is these occurrences from first to last, a keyword that        *)
(* occurs n times being n times in it.                                     *)
(***************************************************************************)
\* The occurrences <<start, keyword>> of the keywords of group g in text.
Occurrences(g, text) ==
    {o \in (1..Len(text)) \X Range(InitPatterns[g][2]) : MatchAt(text, o[1], o[2])}

Overlap(o1, o2) ==
    /\ o1 # o2
    /\ o1[1] <= o2[1] + Len(o2[2]) - 1
    /\ o2[1] <= o1[1] + Len(o1[2]) - 1

\* The occurrences from the first to the last.
InTextOrder(occ) ==
    [n \in 1..Cardinality(occ) |->
        (CHOOSE o \in occ : Cardinality({q \in occ : q[1] < o[1]}) = n - 1)[2]]

\* The sequence the extracted dict kws holds for group g; none if it has no
\* entry for g.
GroupMatches(kws, g) ==
    IF \E e \in 1..Len(kws) : kws[e][1] = InitPatterns[g][1]
    THEN kws[CHOOSE e \in 1..Len(kws) : kws[e][1] = InitPatterns[g][1]][2]
    ELSE <<>>

Extracted(t) == pc[t] \in {"derive", "loop", "done"}

\* How often w is in sequence s.
Count(s, w) == Cardinality({i \in 1..Len(s) : s[i] = w})

C6_MatchesInTextOrder ==
    \A t \in Threads :
        Extracted(t) =>
            \A g \in 1..Len(InitPatterns) :
                LET occ == Occurrences(g, Lower(brief[t].text))
                IN  (\A o1, o2 \in occ : ~Overlap(o1, o2)) =>
                        /\ GroupMatches(keywords[t], g) = InTextOrder(occ)
                        /\ \A w \in Range(InitPatterns[g][2]) :
                              Count(GroupMatches(keywords[t], g), w)
                                  = Cardinality({o \in occ : o[2] = w})

\* One keyword twice and another between the two.
C6_Witness ==
    \E t \in Threads :
        /\ Extracted(t)
        /\ brief[t] = Str(Join(<<kw_glass, kw_wood, kw_glass>>))
        /\ keywords[t] = << <<"materials", <<kw_glass, kw_wood, kw_glass>> >> >>
        /\ Count(GroupMatches(keywords[t], 5), kw_glass) = 2

(***************************************************************************)
(* C7: one pass of the loop of _derive_parameters writes the keys the      *)
(* word's rule lists, each with the rule's value, and leaves every other   *)
(* key as it was; a word without a rule (building, climate, weather,       *)
(* temperature, panorama, outlook, vista) changes nothing, so a brief      *)
(* whose matches are all such words resolves to the default ParameterSet.  *)
(***************************************************************************)
NoRuleKeywords ==
    {kw_building, kw_climate, kw_weather, kw_temperature, kw_panorama,
     kw_outlook, kw_vista}

\* Thread t makes one pass of the loop in this step.
PassOfLoop(t) ==
    pc[t] = "loop" /\ todo[t] # <<>> /\ todo'[t] = Tail(todo[t])

C7_OnlyRuleKeysWritten ==
    [][\A t \in Threads :
          /\ NoRuleKeywords = Recognized \ DOMAIN keyword_mappings
          /\ PassOfLoop(t) =>
                LET w == Head(todo[t])
                    before == Params(t)
                    after == Params(t)'
                IN  IF w \in DOMAIN keyword_mappings
                    THEN /\ DOMAIN after = DOMAIN before \cup DOMAIN keyword_mappings[w]
                         /\ \A k \in DOMAIN keyword_mappings[w] :
                               after[k] = keyword_mappings[w][k]
                         /\ \A k \in DOMAIN before \ DOMAIN keyword_mappings[w] :
                               after[k] = before[k]
                    ELSE w \in NoRuleKeywords /\ after = before
          /\ (pc'[t] = "done" /\ Range(Flatten(keywords'[t])) \subseteq NoRuleKeywords)
                => outcome'[t].params = InitDefaultParams
      ]_vars

\* Words without a rule were matched and visited, and the defaults came back.
C7_Witness ==
    \E t \in Threads :
        /\ Returned(t)
        /\ brief[t] = Str(Join(<<kw_building, w_and, kw_vista>>))
        /\ Visited(t) = <<kw_building, kw_vista>>
        /\ outcome[t].params = InitDefaultParams

(***************************************************************************)
(* C8: on one interpreter, whatever calls came before, resolving a text    *)
(* again gives what resolving the same text gave before.                   *)
(***************************************************************************)
C8_SameTextSameResult ==
    \A t \in Threads :
        (Ended(t) /\ seen # <<>> /\ seen[1].brief = brief[t]) =>
            /\ outcome[t].status = seen[1].outcome.status
            /\ outcome[t].keywords = seen[1].outcome.keywords
            /\ outcome[t].params = seen[1].outcome.params

\* A text with keywords is resolved a second time, after the remembered call.
C8_Witness ==
    \E t \in Threads :
        /\ Returned(t)
        /\ seen # <<>>
        /\ seen[1].brief = brief[t]
        /\ brief[t] = Str(Join(<<kw_modular, kw_tower, kw_views>>))
        /\ outcome[t].params = seen[1].outcome.params
        /\ outcome[t].params # InitDefaultParams

(***************************************************************************)
(* C9: two briefs that differ only in the case of their letters give the   *)
(* same extracted keyword groups and the same ParameterSet.                *)
(***************************************************************************)
SameButForCase(a, b) ==
    /\ Len(a) = Len(b)
    /\ \A i \in 1..Len(a) : UpperChar(a[i]) = UpperChar(b[i])

C9_CaseInsensitive ==
    \A t \in Threads :
        (/\ Returned(t)
         /\ seen # <<>>
         /\ IsStr(seen[1].brief)
         /\ SameButForCase(seen[1].brief.text, brief[t].text)) =>
            /\ seen[1].outcome.status = "returned"
            /\ outcome[t].keywords = seen[1].outcome.keywords
            /\ outcome[t].params = seen[1].outcome.params

\* "HIGH-RISE" after "high-rise", or the like, with the keyword found.
C9_Witness ==
    \E t \in Threads :
        /\ Returned(t)
        /\ seen # <<>>
        /\ seen[1].brief = Str(kw_high_rise)
        /\ brief[t] = Str(Spelled(kw_high_rise, "upper"))
        /\ brief[t] # seen[1].brief
        /\ outcome[t].keywords = << <<"building_type", <<kw_high_rise>> >> >>
        /\ outcome[t].params.story_count = 30

(***************************************************************************)
(* C10: the resolver raises for no str: every call with a str returns a    *)
(* ParameterSet, the empty str gives the defaults, and a str without a     *)
(* letter is resolved as any other.                                        *)
(***************************************************************************)
NoLetter(text) == \A i \in 1..Len(text) : ~IsLetter(text[i])

C10_NeverRaisesForStr ==
    \A t \in Threads :
        IsStr(brief[t]) =>
            /\ pc[t] # "raised"
            /\ Ended(t) =>
                  /\ outcome[t].status = "returned"
                  /\ DOMAIN InitDefaultParams \subseteq DOMAIN outcome[t].params
            /\ (Ended(t) /\ brief[t].text = <<>>) =>
                  outcome[t].params = InitDefaultParams
            /\ (Ended(t) /\ NoLetter(brief[t].text)) =>
                  outcome[t].params = InitDefaultParams

\* A str of digits, a blank and marks has been resolved.
C10_Witness ==
    \E t \in Threads :
        /\ Returned(t)
        /\ brief[t] = Str(Join(<<w_digits, w_marks>>))
        /\ NoLetter(brief[t].text)
        /\ outcome[t].params = InitDefaultParams

(***************************************************************************)
(* C11: a brief that is no str is rejected by an exception raised to the   *)
(* caller before any extraction or derivation: the call never comes back   *)
(* with a dict, no keyword is extracted and no working ParameterSet is     *)
(* made.  interpret_brief(None) comes back with a dict.                    *)
(***************************************************************************)
C11_NonStrRejected ==
    \A t \in Threads :
        ~IsStr(brief[t]) =>
            /\ pc[t] \notin {"derive", "loop", "done", "failed", "responded"}
            /\ keywords[t] = <<>>
            /\ params_ref[t] = "none"

(***************************************************************************)
(* C12: for every str, interpret_brief returns the record with the brief,  *)
(* the keyword groups, the ParameterSet, the operation list and the two    *)
(* scripts.  _generate_operations raises KeyError for every resolved       *)
(* ParameterSet, so the record is never built.                             *)
(***************************************************************************)
InterpretReturned(t) == entry[t] = "interpret_brief" /\ pc[t] = "responded"

C12_StructuredRecordForStr ==
    \A t \in Threads :
        (InterpretReturned(t) /\ IsStr(brief[t])) =>
            /\ response[t].kind = "response"
            /\ response[t].brief = brief[t]
            /\ response[t].keywords = keywords[t]
            /\ response[t].parameters = outcome[t].params
            /\ response[t].operations # <<>>
            /\ ~response[t].rhino.raised
            /\ ~response[t].grasshopper.raised

(***************************************************************************)
(* C13: an exception of the operation or script stage is caught inside     *)
(* interpret_brief: the next step of the call returns the error dict with  *)
(* the brief as it was passed, no exception ever reaches the caller, no    *)
(* step of the resolver runs again in that call, and default_params,       *)
(* keyword_mappings and patterns are as constructed.                       *)
(***************************************************************************)
C13_DownstreamFailureCaught ==
    [][\A t \in Threads :
          /\ pc'[t] # "propagated"
          /\ (pc[t] = "failed" /\ pc'[t] # "failed") =>
                /\ pc'[t] = "responded"
                /\ response'[t].kind = "error"
                /\ response'[t].error = StrOfException(exception[t])
                /\ response'[t].brief = brief[t]
                /\ brief'[t] = brief[t]
                /\ outcome'[t] = outcome[t]
                /\ interp' = <<InitDefaultParams, InitKeywordMappings, InitPatterns>>
          /\ (pc[t] = "responded" /\ pc'[t] # "responded") => pc'[t] = "idle"]_vars

\* interpret_brief has returned the error dict for the KeyError of
\* _generate_operations, and the dict holds the docstring's brief.
C13_Witness ==
    \E t \in Threads :
        /\ InterpretReturned(t)
        /\ brief[t] = Str(text_docstring)
        /\ outcome[t].status = "returned"
        /\ response[t].kind = "error"
        /\ response[t].error = <<"'", "color_scheme", "'">>
        /\ response[t].brief = Str(text_docstring)

(***************************************************************************)
(* C14: calls leave the interpreter as constructed: at every step of every *)
(* call of the resolver or of interpret_brief, default_params,             *)
(* keyword_mappings and patterns hold their initial values.                *)
(***************************************************************************)
C14_InterpreterUnchanged ==
    /\ default_params = InitDefaultParams
    /\ keyword_mappings = InitKeywordMappings
    /\ patterns = InitPatterns

\* A call of interpret_brief has come back after its working ParameterSet
\* was written to, and the defaults are as constructed.
C14_Witness ==
    \E t \in Threads :
        /\ InterpretReturned(t)
        /\ Visited(t) # <<>>
        /\ Params(t) # InitDefaultParams
        /\ Params(t).panel_rotation_limit # InitDefaultParams.panel_rotation_limit
        /\ default_params = InitDefaultParams

(***************************************************************************)
(* C15: calls of the resolver that interleave on the one interpreter do    *)
(* not disturb each other: each works on a dict of its own, at every pass  *)
(* of the loops that dict is what the words visited so far make of the     *)
(* defaults, and the call returns what it returns when it runs alone.      *)
(***************************************************************************)
\* The rules of the words ws written one after the other onto d.
RECURSIVE Written(_, _)
Written(d, ws) ==
    IF ws = <<>> THEN d
    ELSE Written(ApplyWord(d, InitKeywordMappings, Head(ws)), Tail(ws))

\* What the resolver returns for str b when no other call runs.
Alone(b) == Written(InitDefaultParams, Flatten(ExtractKeywords(InitPatterns, b)))

\* The words the loops of thread t's call have visited so far.
Passed(t) ==
    SubSeq(Flatten(keywords[t]), 1, Len(Flatten(keywords[t])) - Len(todo[t]))

C15_Reentrant ==
    \A t \in Threads :
        /\ params_ref[t] # "self.default_params"
        /\ pc[t] = "loop" => Params(t) = Written(InitDefaultParams, Passed(t))
        /\ Returned(t) => outcome[t].params = Alone(brief[t])

\* Two calls are inside the loops at once, each has written to its dict and
\* has words left, and the two dicts differ.
C15_Witness ==
    /\ \A t \in Threads : pc[t] = "loop" /\ todo[t] # <<>> /\ Passed(t) # <<>>
    /\ \A t \in Threads : Params(t) # InitDefaultParams
    /\ brief["t1"] = Str(text_dynamic_static)
    /\ brief["t2"] = Str(text_sparse_high_rise)
    /\ Params("t1") # Params("t2")

(***************************************************************************)
(* C17: matching is by substring, without word boundaries: a keyword       *)
(* inside a longer word ("static" in "ecstatic", "tower" in "towers",      *)
(* "wood" in "woodland") is extracted, and its rule is applied as if the   *)
(* keyword stood alone.                                                    *)
(***************************************************************************)
\* The occurrence o of a keyword in text has a letter right before or right
\* after it.
Embedded(text, o) ==
    \/ o[1] > 1 /\ IsLetter(text[o[1] - 1])
    \/ o[1] + Len(o[2]) <= Len(text) /\ IsLetter(text[o[1] + Len(o[2])])

\* The defaults with the rule of keyword w written over them.
DefaultsWith(w) ==
    [k \in DOMAIN InitDefaultParams \cup DOMAIN InitKeywordMappings[w] |->
        IF k \in DOMAIN InitKeywordMappings[w]
        THEN InitKeywordMappings[w][k] ELSE InitDefaultParams[k]]

EmbeddedExamples ==
    { <<w_ecstatic, "facade_type", kw_static>>,
      <<w_towers, "building_type", kw_tower>>,
      <<w_woodland, "materials", kw_wood>> }

C18_Ranges ==
    \A t \in Threads :
        Returned(t) =>
            LET p == outcome[t].params
            IN  /\ p.panel_density \in 0..100
                /\ p.view_priority \in 0..100
                /\ p.sun_priority \in 0..100
                /\ p.panel_rotation_limit \in 0..90
                /\ p.story_count \in {5, 15, 30, 40}
                /\ p.grid_size > 0

\* Several rules that set the ranged parameters have been applied.
C18_Witness ==
    \E t \in Threads :
        /\ Returned(t)
        /\ brief[t] = Str(Join(<<kw_modular, kw_tower, kw_views>>))
        /\ outcome[t].params.story_count = 40
        /\ outcome[t].params.view_priority = 90
        /\ outcome[t].params.grid_size = 120

(***************************************************************************)
(* C19: every keyword of the rule table can be reached: the brief that is  *)
(* just the keyword ("framing views" and "sun angle" among them) extracts  *)
(* that keyword and nothing else, and resolves to the defaults with        *)
(* exactly the keyword's rule written over them.                           *)
(***************************************************************************)
C19_EveryRuleReachable ==
    \A t \in Threads :
        (Returned(t) /\ IsStr(brief[t]) /\ brief[t].text \in DOMAIN InitKeywordMappings) =>
            LET w == brief[t].text
            IN  /\ outcome[t].keywords
                      = << <<InitPatterns[GroupOfWord(w)][1], <<w>> >> >>
                /\ DOMAIN outcome[t].params
                      = DOMAIN InitDefaultParams \cup DOMAIN InitKeywordMappings[w]
                /\ \A k \in DOMAIN InitKeywordMappings[w] :
                      outcome[t].params[k] = InitKeywordMappings[w][k]
                /\ \A k \in DOMAIN InitDefaultParams \ DOMAIN InitKeywordMappings[w] :
                      outcome[t].params[k] = InitDefaultParams[k]

\* "framing views" alone gives its own rule, not that of "views".
C19_Witness ==
    \E t \in Threads :
        /\ Returned(t)
        /\ brief[t] = Str(kw_framing_views)
        /\ Visited(t) = <<kw_framing_views>>
        /\ outcome[t].params.view_priority = 95
        /\ outcome[t].params.panel_density = 70

(***************************************************************************)
(* C20: the keys of every resolved ParameterSet are the 13 default keys,   *)
(* and the key "form" as well exactly when "tower" was matched; the keys   *)
(* design_domain and color_scheme, which _generate_operations reads, are   *)
(* never among them.                                                       *)
(***************************************************************************)
C20_KeySet ==
    \A t \in Threads :
        Returned(t) =>
            /\ Cardinality(DOMAIN InitDefaultParams) = 13
            /\ DOMAIN outcome[t].params =
                  DOMAIN InitDefaultParams
                  \cup (IF kw_tower \in Range(Visited(t)) THEN {"form"} ELSE {})
            /\ "design_domain" \notin DOMAIN outcome[t].params
            /\ "color_scheme" \notin DOMAIN outcome[t].params

\* "tower" was matched before a keyword of a later group, and form is kept.
C20_Witness ==
    \E t \in Threads :
        /\ Returned(t)
        /\ Visited(t) = <<kw_tower, kw_sparse>>
        /\ DOMAIN outcome[t].params = DOMAIN InitDefaultParams \cup {"form"}
        /\ outcome[t].params.panel_density = 50

(***************************************************************************)
(* C21: in every resolved ParameterSet, responsive_panels false implies    *)
(* panel_rotation_limit 0, because every rule that sets a rotation limit   *)
(* other than 0 sets responsive_panels true.  The converse fails: "static  *)
(* responsive" gives responsive_panels true with panel_rotation_limit 0.   *)
(***************************************************************************)
C21_NotResponsiveMeansNoRotation ==
    /\ \A w \in DOMAIN keyword_mappings :
          ("panel_rotation_limit" \in DOMAIN keyword_mappings[w]
              /\ keyword_mappings[w].panel_rotation_limit # 0) =>
             /\ "responsive_panels" \in DOMAIN keyword_mappings[w]
             /\ keyword_mappings[w].responsive_panels
    /\ \A t \in Threads :
          /\ (pc[t] \in {"loop", "done"} /\ ~Params(t).responsive_panels) =>
                Params(t).panel_rotation_limit = 0
          /\ (Returned(t) /\ ~outcome[t].params.responsive_panels) =>
                outcome[t].params.panel_rotation_limit = 0
          /\ (Returned(t) /\ brief[t] = Str(Join(<<kw_static, kw_responsive>>))) =>
                /\ outcome[t].params.responsive_panels
                /\ outcome[t].params.panel_rotation_limit = 0

\* "a dynamic and static facade" has been resolved: dynamic set the limit to
\* 60, static then switched the panels off and set it to 0.
C21_Witness ==
    \E t \in Threads :
        /\ Returned(t)
        /\ brief[t] = Str(text_dynamic_static)
        /\ Visited(t) = <<kw_dynamic, kw_static>>
        /\ ~outcome[t].params.responsive_panels
        /\ outcome[t].params.panel_rotation_limit = 0

(***************************************************************************)
(* C22: when the rules of the keywords matched in a brief set pairwise     *)
(* disjoint keys, a brief with the same keywords, each as often, in        *)
(* another order resolves to the same ParameterSet.                        *)
(***************************************************************************)
\* The keys the rule of w sets; none for a word without a rule.
KeysOf(w) ==
    IF w \in DOMAIN InitKeywordMappings THEN DOMAIN InitKeywordMappings[w] ELSE {}

\* No two different words of sequence v have rules that set the same key.
NonConflicting(v) ==
    \A i \in 1..Len(v), j \in 1..Len(v) :
        v[i] # v[j] => KeysOf(v[i]) \cap KeysOf(v[j]) = {}

\* Sequences a and b hold the same words, each as often.
SameMultiset(a, b) ==
    \A w \in Range(a) \cup Range(b) : Count(a, w) = Count(b, w)

\* The remembered call and the call of thread t have both returned.
BothReturned(t) ==
    /\ Returned(t)
    /\ seen # <<>>
    /\ seen[1].outcome.status = "returned"

C22_OrderIndependent ==
    \A t \in Threads :
        (/\ BothReturned(t)
         /\ SameMultiset(Flatten(seen[1].outcome.keywords), Visited(t))
         /\ NonConflicting(Visited(t))) =>
            outcome[t].params = seen[1].outcome.params

\* "louvres dynamic building" was resolved earlier and "building dynamic
\* louvres" now: the two rules were written in the other order, and the
\* ParameterSets agree.
C22_Witness ==
    \E t \in Threads :
        /\ BothReturned(t)
        /\ seen[1].brief = Str(Join(<<kw_louvres, kw_dynamic, kw_building>>))
        /\ brief[t] = Str(Join(<<kw_building, kw_dynamic, kw_louvres>>))
        /\ Flatten(seen[1].outcome.keywords) = <<kw_building, kw_louvres, kw_dynamic>>
        /\ Visited(t) = <<kw_building, kw_dynamic, kw_louvres>>
        /\ NonConflicting(Visited(t))
        /\ outcome[t].params = seen[1].outcome.params
        /\ outcome[t].params.panel_rotation_limit = 60
        /\ outcome[t].params.panel_type = "louvre"

(***************************************************************************)
(* C23: the dict _extract_keywords returns holds a group name only if the  *)
(* group has a match: no group maps to an empty list, a group is there     *)
(* exactly when one of its keywords is in the brief, and a brief without   *)
(* any keyword gives the empty dict.                                       *)
(***************************************************************************)
\* The group names of the dict kws.
GroupNames(kws) == {kws[e][1] : e \in 1..Len(kws)}

C23_OnlyMatchedGroups ==
    \A t \in Threads :
        Extracted(t) =>
            /\ \A e \in 1..Len(keywords[t]) : keywords[t][e][2] # <<>>
            /\ \A g \in 1..Len(InitPatterns) :
                  InitPatterns[g][1] \in GroupNames(keywords[t])
                     <=> \E w \in Range(InitPatterns[g][2]) : Mentions(brief[t], w)
            /\ NoKeyword(brief[t]) => keywords[t] = <<>>

\* "building and vista" has been scanned: the dict holds the two groups
\* that matched and none of the other five.
C23_Witness ==
    \E t \in Threads :
        /\ Extracted(t)
        /\ brief[t] = Str(Join(<<kw_building, w_and, kw_vista>>))
        /\ keywords[t] = << <<"building_type", <<kw_building>> >>,
                            <<"views", <<kw_vista>> >> >>
        /\ GroupNames(keywords[t]) = {"building_type", "views"}

(***************************************************************************)
(* C24: for a ParameterSet that holds the keys it reads,                   *)
(* _generate_operations returns a list that starts with initialize_design  *)
(* and ends with finalize_design, both with the same design_domain, which  *)
(* is "facade" when the ParameterSet has no such key; for a design_domain  *)
(* that is none of the six domains the list is these two operations.       *)
(***************************************************************************)
\* The keys _generate_operations and the generator of the domain read from
\* ParameterSet ps.
KeysRead(ps) ==
    LET domain == IF "design_domain" \in DOMAIN ps THEN ps.design_domain ELSE "facade"
    IN  {"grid_size", "material", "color_scheme"}
        \cup (CASE domain = "facade" ->
                      {"story_count", "floor_height", "grid_size", "facade_offset",
                       "panel_type", "panel_density", "material", "structural_system",
                       "responsive_panels"}
                      \cup (IF "responsive_panels" \in DOMAIN ps /\ ps.responsive_panels
                            THEN {"sun_priority", "view_priority", "panel_rotation_limit"}
                            ELSE {})
                [] domain = "floor_plan" ->
                      {"floor_area", "program_type", "room_count", "open_plan",
                       "corridor_width", "room_division"}
                [] domain = "urban" ->
                      {"block_size", "street_width", "building_coverage", "density",
                       "building_height_avg", "mixed_use"}
                [] domain = "landscape" ->
                      {"terrain_complexity", "topography_variation", "path_complexity",
                       "vegetation_density", "water_features"}
                [] domain = "structure" ->
                      {"structural_grid", "structural_system", "column_dimensions",
                       "structural_material", "beam_depth"}
                [] domain = "parametric_form" ->
                      {"subdivision_level", "attractor_points", "iterations",
                       "complexity", "symmetry"}
                [] OTHER -> {})

\* _generate_operations has been called on gen.params and has ended.
OperationsCalled == gen.params # NoDict /\ gen.pc # "operations"

\* It has returned a list, which gen.operations holds.
OperationsReturned == OperationsCalled /\ gen.operations # <<>>

\* The names of the operations of a list.
OperationNames(ops) == [i \in 1..Len(ops) |-> ops[i].operation]

C24_InitializeFirstFinalizeLast ==
    OperationsCalled =>
        LET ps == gen.params
            ops == gen.operations
            n == Len(ops)
            domain == IF "design_domain" \in DOMAIN ps THEN ps.design_domain
                      ELSE "facade"
        IN  /\ KeysRead(ps) \subseteq DOMAIN ps => OperationsReturned
            /\ OperationsReturned =>
                  /\ n >= 2
                  /\ ops[1].operation = "initialize_design"
                  /\ ops[n].operation = "finalize_design"
                  /\ ops[1].params.design_domain = domain
                  /\ ops[n].params.design_domain = domain
                  /\ \A i \in 2..(n - 1) :
                        ops[i].operation \notin {"initialize_design", "finalize_design"}
                  /\ domain \notin KnownDomains => n = 2

\* The list for a ParameterSet with design_domain "interior" has been
\* returned: initialize_design and finalize_design, both with that domain.
C24_Witness ==
    /\ OperationsReturned
    /\ "design_domain" \in DOMAIN gen.params
    /\ gen.params.design_domain = "interior"
    /\ OperationNames(gen.operations) = <<"initialize_design", "finalize_design">>
    /\ gen.operations[1].params.design_domain = "interior"
    /\ gen.operations[2].params.design_domain = "interior"

(***************************************************************************)
(* C25: the facade operations are create_building_envelope,                *)
(* create_facade_system and, last, generate_facade_geometry; between the   *)
(* second and the last stand analyze_sun_angles, analyze_view_corridors    *)
(* and generate_panel_rotations, in that order, exactly when               *)
(* responsive_panels is true.                                              *)
(***************************************************************************)
\* The list gen.operations was built for the facade domain.
FacadeReturned ==
    /\ OperationsReturned
    /\ ("design_domain" \in DOMAIN gen.params => gen.params.design_domain = "facade")

\* The operations between initialize_design and finalize_design.
Between(ops) == SubSeq(OperationNames(ops), 2, Len(ops) - 1)

C25_FacadeOrder ==
    FacadeReturned =>
        Between(gen.operations) =
            IF gen.params.responsive_panels
            THEN <<"create_building_envelope", "create_facade_system",
                   "analyze_sun_angles", "analyze_view_corridors",
                   "generate_panel_rotations", "generate_facade_geometry">>
            ELSE <<"create_building_envelope", "create_facade_system",
                   "generate_facade_geometry">>

\* The facade list for what "static" resolves to, with color_scheme
\* supplied, has been returned: no analysis stands in it.
C25_Witness ==
    /\ FacadeReturned
    /\ ~gen.params.responsive_panels
    /\ gen.params.panel_rotation_limit = 0
    /\ Between(gen.operations) =
          <<"create_building_envelope", "create_facade_system",
            "generate_facade_geometry">>

(***************************************************************************)
(* C26: the two stages select the same domain: the script                  *)
(* _generate_rhino_code emits is the script of the domain whose operations *)
(* _generate_operations built, and it is the facade script only when the   *)
(* list holds facade operations.  For the other names the script generator *)
(* accepts and for unknown domains the list holds the operations of no     *)
(* domain, yet a domain's script is emitted.                               *)
(***************************************************************************)
\* The domain whose operations the list ops holds, by the first operation
\* of each domain generator; "none" when it holds those of no domain.
OperationsDomain(ops) ==
    LET names == Range(OperationNames(ops))
    IN  CASE "create_building_envelope" \in names -> "facade"
          [] "create_floor_boundary" \in names -> "floor_plan"
          [] "create_site_boundary" \in names -> "urban"
          [] "create_terrain" \in names -> "landscape"
          [] "create_structural_grid" \in names -> "structure"
          [] "create_base_geometry" \in names -> "parametric_form"
          [] OTHER -> "none"

\* The domain of the script a generator of _generate_rhino_code emits.
ScriptDomain(template) ==
    CASE template = "_generate_facade_rhino_code" -> "facade"
      [] template = "_generate_floor_plan_rhino_code" -> "floor_plan"
      [] template = "_generate_urban_rhino_code" -> "urban"
      [] template = "_generate_landscape_rhino_code" -> "landscape"
      [] template = "_generate_structure_rhino_code" -> "structure"
      [] template = "_generate_parametric_form_rhino_code" -> "parametric_form"

\* _generate_rhino_code has returned the script for the list that
\* _generate_operations built.
ScriptReturned == OperationsReturned /\ gen.rhino # NoScript

C26_DomainSelectionAgrees ==
    ScriptReturned =>
        ScriptDomain(gen.rhino.template) = OperationsDomain(gen.operations)

(***************************************************************************)
(* C27: called on an empty operation list, neither script generator        *)
(* raises: _generate_rhino_code returns its fixed text for that case and   *)
(* _generate_grasshopper_code returns a text too.  The latter reads        *)
(* operations[0] without a test and raises IndexError.                     *)
(***************************************************************************)
\* The script generators were called on the empty list.
EmptyListPassed ==
    /\ gen.pc \in {"grasshopper", "returned", "raised"}
    /\ gen.params = NoDict
    /\ gen.operations = <<>>

C27_EmptyListHandled ==
    EmptyListPassed =>
        /\ gen.pc # "raised"
        /\ gen.rhino.template = "no_operations"
        /\ gen.pc = "returned" => gen.grasshopper.template = "grasshopper"
====
